---------------------------- MODULE Spec2Model ----------------------------
(***************************************************************************)
(* A model of the nearby-location pipeline of safebed:                     *)
(*   src/utils/hours.ts        isOpenNow and its helpers                   *)
(*   src/utils/geo.ts          distanceInKm, attachDistance                *)
(*   src/app/api/locations/route.ts                                        *)
(*                             parseNumber, parseBooleanParam,             *)
(*                             extractCoordinates, toLocationRecord,       *)
(*                             applyFilters, buildResponse, GET            *)
(*                                                                         *)
(* JavaScript values are tagged records; a JavaScript string is the        *)
(* sequence of its characters, so that parsing is modelled by what it      *)
(* does to the characters.                                                 *)
(***************************************************************************)
EXTENDS Integers, Sequences, FiniteSets, TLC

VARIABLES
    pc,             \* position of the GET handler: "idle", "awaiting", "done"
    query,          \* searchParams of the request being served
    filterOptions,  \* the filterOptions object GET builds (<<>> before)
    reply,          \* what the awaited supabase.rpc call settled with
    candidates,     \* the records handed to buildResponse (<<>> before)
    evaluatedAt,    \* what new Date() returned when the filter ran
    response,       \* the response returned (<<>> before)
    rpcCalls,       \* supabase.rpc calls issued for the request
    fallbackReads,  \* reads of mockLocations for the request
    dataset,        \* the mockLocations array of the module, which every request reads
    fn,             \* the function a function-level specification applies
    arg,            \* its argument
    ret             \* its result, <<>> until applied

vars == <<pc, query, filterOptions, reply, candidates, evaluatedAt, response,
          rpcCalls, fallbackReads, dataset, fn, arg, ret>>

----------------------------------------------------------------------------
(* JavaScript values *)

JNull == [type |-> "null"]
JNaN == [type |-> "NaN"]
JNum(n) == [type |-> "number", num |-> n]
JBool(b) == [type |-> "boolean", bool |-> b]
JStr(cs) == [type |-> "string", chars |-> cs]
JArr(items) == [type |-> "array", items |-> items]
JObj(fields) == [type |-> "object", fields |-> fields]

\* typeof v === "number" (NaN is a number to typeof)
IsNumber(v) == v.type \in {"number", "NaN"}
\* v == null / v != null
IsNullish(v) == v.type = "null"
\* Number.isFinite(v)
IsFinite(v) == v.type = "number"
\* the truthiness of v, as the if-conditions and && read it
Truthy(v) ==
    CASE v.type = "null" -> FALSE
      [] v.type = "NaN" -> FALSE
      [] v.type = "number" -> v.num # 0
      [] v.type = "boolean" -> v.bool
      [] v.type = "string" -> v.chars # <<>>
      [] OTHER -> TRUE

\* a completed call: its value, or the fact that it threw
Return(v) == [threw |-> FALSE, value |-> v]
Throw == [threw |-> TRUE, value |-> JNull]

----------------------------------------------------------------------------
(* Characters and the number parsers of the language *)

DigitChars == <<"0", "1", "2", "3", "4", "5", "6", "7", "8", "9">>
IsDigit(c) == \E i \in 1..10 : DigitChars[i] = c
DigitValue(c) == (CHOOSE i \in 1..10 : DigitChars[i] = c) - 1
Digit(n) == DigitChars[n + 1]

\* the characters of cs from position i on
Drop(cs, i) == SubSeq(cs, i, Len(cs))

RECURSIVE SkipSpaces(_)
SkipSpaces(cs) ==
    IF cs # <<>> /\ cs[1] = " " THEN SkipSpaces(Tail(cs)) ELSE cs

\* the value of the longest prefix of digits of cs, acc being the value read
\* so far
RECURSIVE DigitsValue(_, _)
DigitsValue(cs, acc) ==
    IF cs # <<>> /\ IsDigit(cs[1])
    THEN DigitsValue(Tail(cs), acc * 10 + DigitValue(cs[1]))
    ELSE acc

\* the signed-integer prefix both Number.parseInt(s, 10) and, on strings
\* without "." or an exponent, Number.parseFloat(s) read: leading white
\* space, a sign, the longest run of digits; NaN when there is no digit
SignedDigits(s) ==
    LET neg == s # <<>> /\ s[1] = "-"
        body == IF s # <<>> /\ s[1] \in {"-", "+"} THEN Tail(s) ELSE s
    IN IF body # <<>> /\ IsDigit(body[1])
       THEN JNum((IF neg THEN -1 ELSE 1) * DigitsValue(body, 0))
       ELSE JNaN

ParseIntegerPrefix(cs) == SignedDigits(SkipSpaces(cs))

parseInt(cs) == ParseIntegerPrefix(cs)
parseFloat(cs) == ParseIntegerPrefix(cs)

----------------------------------------------------------------------------
(* src/utils/hours.ts *)

dayKeys == <<"sun", "mon", "tue", "wed", "thu", "fri", "sat">>

MINUTES_IN_DAY == 24 * 60

\* the position of the first ":" of cs, 0 when there is none
FirstColon(cs) ==
    IF \E i \in 1..Len(cs) : cs[i] = ":"
    THEN CHOOSE i \in 1..Len(cs) :
            cs[i] = ":" /\ \A j \in 1..(i - 1) : cs[j] # ":"
    ELSE 0

\* the characters of cs before position colon, all of them when colon = 0
Before(cs, colon) == IF colon = 0 THEN cs ELSE SubSeq(cs, 1, colon - 1)

\* time.split(":")[0]
HourPart(cs) == Before(cs, FirstColon(cs))

\* the second part of a split at position colon, "0" for a missing one
SecondPart(cs, colon) ==
    IF colon = 0 THEN <<"0">> ELSE HourPart(Drop(cs, colon + 1))

\* time.split(":")[1] ?? "0"
MinutePart(cs) == SecondPart(cs, FirstColon(cs))

\* hours * 60 + minutes, NaN as soon as one of them is
HoursTimes60PlusMinutes(hours, minutes) ==
    IF hours.type = "NaN" \/ minutes.type = "NaN"
    THEN JNaN
    ELSE JNum(hours.num * 60 + minutes.num)

\* toMinutes(time): a number, NaN included; it throws when time is no string
\* (time.split is not a function)
toMinutes(time) ==
    IF time.type # "string"
    THEN Throw
    ELSE Return(HoursTimes60PlusMinutes(parseInt(HourPart(time.chars)),
                                        parseInt(MinutePart(time.chars))))

normalize(minuteMark) ==
    IF minuteMark.type = "NaN" THEN minuteMark
    ELSE IF minuteMark.num < 0 THEN JNum(minuteMark.num + MINUTES_IN_DAY)
    ELSE IF minuteMark.num >= MINUTES_IN_DAY
         THEN JNum(minuteMark.num - MINUTES_IN_DAY)
    ELSE minuteMark

\* a <= b, a >= b and a < b of numbers: false as soon as one is NaN
NumLe(a, b) == a.type = "number" /\ b.type = "number" /\ a.num <= b.num
NumLt(a, b) == a.type = "number" /\ b.type = "number" /\ a.num < b.num

\* a variant that takes the end of a same-day interval as open time
intervalContainsClosed(start, end, current) ==
    IF NumLe(start, end)
    THEN NumLe(start, current) /\ NumLe(current, end)
    ELSE NumLe(start, current) \/ NumLt(current, end)

intervalContains(start, end, current) ==
    IF NumLe(start, end)
    THEN NumLe(start, current) /\ NumLt(current, end)
    ELSE NumLe(start, current) \/ NumLt(current, end)

\* the array pattern [start, end] applied to one interval: its first two
\* elements (undefined, here null, past its end); a string gives its first
\* two characters; what cannot be iterated throws
Destructure2(interval) ==
    LET at(items, i) == IF i <= Len(items) THEN items[i] ELSE JNull
    IN CASE interval.type = "array" ->
              Return(<<at(interval.items, 1), at(interval.items, 2)>>)
         [] interval.type = "string" ->
              LET cs == [i \in 1..Len(interval.chars) |->
                            JStr(<<interval.chars[i]>>)]
              IN Return(<<at(cs, 1), at(cs, 2)>>)
         [] OTHER -> Throw

\* the body of the callback of todaysHours.some, start and end being the
\* outcomes of toMinutes on the two endpoints
ContainsNow(start, end, minutesNow) ==
    IF start.threw \/ end.threw
    THEN Throw
    ELSE Return(intervalContains(normalize(start.value), normalize(end.value),
                                 minutesNow))

\* the callback of todaysHours.some on the destructured interval
EndpointsOpen(pair, minutesNow) ==
    IF pair.threw
    THEN Throw
    ELSE ContainsNow(toMinutes(pair.value[1]), toMinutes(pair.value[2]),
                     minutesNow)

\* the callback of todaysHours.some on one interval; it throws when the
\* interval cannot be destructured or an endpoint is no string
IntervalOpen(interval, minutesNow) ==
    EndpointsOpen(Destructure2(interval), minutesNow)

\* todaysHours.some(...): the intervals are tried in order and the first
\* one that holds, or throws, ends the loop
RECURSIVE SomeInterval(_, _)
SomeFrom(first, rest, minutesNow) ==
    IF first.threw THEN Throw
    ELSE IF first.value THEN Return(TRUE)
    ELSE SomeInterval(rest, minutesNow)

SomeInterval(intervals, minutesNow) ==
    IF intervals = <<>>
    THEN Return(FALSE)
    ELSE SomeFrom(IntervalOpen(intervals[1], minutesNow), Tail(intervals),
                  minutesNow)

\* isOpenNow(hours, referenceDate); referenceDate is [day, hours, minutes],
\* what getDay(), getHours() and getMinutes() return
isOpenNow(hours, referenceDate) ==
    IF ~Truthy(hours)
    THEN Return(FALSE)
    ELSE LET todayKey == dayKeys[referenceDate.day + 1]
             minutesNow == JNum(referenceDate.hours * 60 + referenceDate.minutes)
         IN IF hours.type # "object" \/ todayKey \notin DOMAIN hours.fields
            THEN Return(FALSE)
            ELSE LET todaysHours == hours.fields[todayKey]
                 IN IF todaysHours.type # "array"
                    THEN (IF Truthy(todaysHours) /\ todaysHours.type = "string"
                          THEN Throw ELSE Return(FALSE))
                    ELSE IF todaysHours.items = <<>>
                    THEN Return(FALSE)
                    ELSE SomeInterval(todaysHours.items, minutesNow)

----------------------------------------------------------------------------
(* src/utils/geo.ts *)

\* the coordinates, in whole degrees, the model places locations and
\* origins at
Grid == {0, 1, 2}

\* Math.round(distanceInKm(originLat, originLng, targetLat, targetLng) * 1000)
\* on the grid: the haversine formula with EARTH_RADIUS_KM = 6371 depends on
\* the two latitudes and on the difference of the longitudes
HaversineMeters(latA, latB, dLng) ==
    LET lo == IF latA <= latB THEN latA ELSE latB
        hi == IF latA <= latB THEN latB ELSE latA
    IN CASE <<lo, hi, dLng>> = <<0, 0, 0>> -> 0
         [] <<lo, hi, dLng>> = <<0, 0, 1>> -> 111195
         [] <<lo, hi, dLng>> = <<0, 0, 2>> -> 222390
         [] <<lo, hi, dLng>> = <<0, 1, 0>> -> 111195
         [] <<lo, hi, dLng>> = <<0, 1, 1>> -> 157249
         [] <<lo, hi, dLng>> = <<0, 1, 2>> -> 248629
         [] <<lo, hi, dLng>> = <<0, 2, 0>> -> 222390
         [] <<lo, hi, dLng>> = <<0, 2, 1>> -> 248629
         [] <<lo, hi, dLng>> = <<0, 2, 2>> -> 314475
         [] <<lo, hi, dLng>> = <<1, 1, 0>> -> 0
         [] <<lo, hi, dLng>> = <<1, 1, 1>> -> 111178
         [] <<lo, hi, dLng>> = <<1, 1, 2>> -> 222356
         [] <<lo, hi, dLng>> = <<1, 2, 0>> -> 111195
         [] <<lo, hi, dLng>> = <<1, 2, 1>> -> 157225
         [] <<lo, hi, dLng>> = <<1, 2, 2>> -> 248569
         [] <<lo, hi, dLng>> = <<2, 2, 0>> -> 0
         [] <<lo, hi, dLng>> = <<2, 2, 1>> -> 111127
         [] <<lo, hi, dLng>> = <<2, 2, 2>> -> 222254

\* the number an arithmetic operator reads its operand as
ToNumber(v) ==
    CASE v.type = "number" -> v
      [] v.type = "boolean" -> JNum(IF v.bool THEN 1 ELSE 0)
      [] v.type = "null" -> JNum(0)
      [] v.type = "string" /\ v.chars = <<>> -> JNum(0)
      [] v.type = "string" /\ v.chars # <<>>
            /\ \A i \in 1..Len(v.chars) : IsDigit(v.chars[i]) ->
            JNum(DigitsValue(v.chars, 0))
      [] OTHER -> JNaN

\* Math.round(distanceInKm(...) * 1000), NaN as soon as an operand is
roundedMeters(originLat, originLng, targetLat, targetLng) ==
    LET oLat == ToNumber(originLat)
        oLng == ToNumber(originLng)
        tLat == ToNumber(targetLat)
        tLng == ToNumber(targetLng)
    IN IF \E v \in {oLat, oLng, tLat, tLng} : v.type = "NaN"
       THEN JNaN
       ELSE JNum(HaversineMeters(oLat.num, tLat.num,
                                 IF tLng.num >= oLng.num
                                 THEN tLng.num - oLng.num
                                 ELSE oLng.num - tLng.num))

attachDistance(record, originLat, originLng) ==
    IF IsNullish(record.latitude) \/ IsNullish(record.longitude)
    THEN [record EXCEPT !.meters = JNull]
    ELSE [record EXCEPT !.meters =
             roundedMeters(originLat, originLng,
                           record.latitude, record.longitude)]

----------------------------------------------------------------------------
(* src/app/api/locations/route.ts: the parsers of the query string *)

DEFAULT_RADIUS_KM == 5
MAX_RESULTS == 50

UpperChars == <<"A", "E", "F", "L", "N", "O", "R", "S", "T", "U", "Y">>
LowerChars == <<"a", "e", "f", "l", "n", "o", "r", "s", "t", "u", "y">>

\* value.toLowerCase(), on the letters the model's strings use
toLowerCase(cs) ==
    [i \in 1..Len(cs) |->
        IF \E k \in 1..Len(UpperChars) : UpperChars[k] = cs[i]
        THEN LowerChars[CHOOSE k \in 1..Len(UpperChars) : UpperChars[k] = cs[i]]
        ELSE cs[i]]

parseNumber(value) ==
    IF value.type = "null"
    THEN JNull
    ELSE LET parsed == parseFloat(value.chars)
         IN IF parsed.type = "NaN" THEN JNull ELSE parsed

parseBooleanParam(value) ==
    IF value.type = "null"
    THEN JNull
    ELSE LET normalized == toLowerCase(value.chars)
         IN IF normalized \in {<<"t", "r", "u", "e">>, <<"1">>,
                               <<"y", "e", "s">>, <<"y">>}
            THEN JBool(TRUE)
            ELSE IF normalized \in {<<"f", "a", "l", "s", "e">>, <<"0">>,
                                    <<"n", "o">>, <<"n">>}
            THEN JBool(FALSE)
            ELSE JNull

\* a ?? b
Coalesce(a, b) == IF IsNullish(a) THEN b ELSE a

----------------------------------------------------------------------------
(* JSON.parse.  A geometry text is the sequence of its JSON lexemes: the   *)
(* punctuation, one-digit numbers, null and the quoted strings below; any  *)
(* other element is a character no JSON text holds.                        *)

StringLexemes == {"\"coordinates\"", "\"type\"", "\"Point\""}

\* the string a quoted lexeme denotes
Unquote(t) ==
    CASE t = "\"coordinates\"" -> "coordinates"
      [] t = "\"type\"" -> "type"
      [] t = "\"Point\"" -> "Point"

Parsed(v, rest) == [ok |-> TRUE, value |-> v, rest |-> rest]
SyntaxError == [ok |-> FALSE, value |-> JNull, rest |-> <<>>]

RECURSIVE ParseValue(_), ParseElements(_, _), ParseMembers(_, _)

\* one JSON value at the head of toks, and what follows it
ParseValue(toks) ==
    IF toks = <<>>
    THEN SyntaxError
    ELSE LET t == toks[1]
             rest == Tail(toks)
         IN CASE IsDigit(t) -> Parsed(JNum(DigitValue(t)), rest)
              [] t = "null" -> Parsed(JNull, rest)
              [] t \in StringLexemes -> Parsed(JStr(<<Unquote(t)>>), rest)
              [] t = "[" ->
                   IF rest # <<>> /\ rest[1] = "]"
                   THEN Parsed(JArr(<<>>), Tail(rest))
                   ELSE ParseElements(rest, <<>>)
              [] t = "{" ->
                   IF rest # <<>> /\ rest[1] = "}"
                   THEN Parsed(JObj(<<>>), Tail(rest))
                   ELSE ParseMembers(rest, <<>>)
              [] OTHER -> SyntaxError

\* after the element v of an array, acc being the elements before it
AfterElement(v, acc) ==
    IF ~v.ok \/ v.rest = <<>>
    THEN SyntaxError
    ELSE IF v.rest[1] = ","
    THEN ParseElements(Tail(v.rest), Append(acc, v.value))
    ELSE IF v.rest[1] = "]"
    THEN Parsed(JArr(Append(acc, v.value)), Tail(v.rest))
    ELSE SyntaxError

\* the elements of an array after its "[", acc being those read so far
ParseElements(toks, acc) == AfterElement(ParseValue(toks), acc)

\* after the member key: v of an object, acc being the members before it;
\* a repeated key keeps its last value
AfterMember(key, v, acc) ==
    IF ~v.ok \/ v.rest = <<>>
    THEN SyntaxError
    ELSE IF v.rest[1] = ","
    THEN ParseMembers(Tail(v.rest), (key :> v.value) @@ acc)
    ELSE IF v.rest[1] = "}"
    THEN Parsed(JObj((key :> v.value) @@ acc), Tail(v.rest))
    ELSE SyntaxError

\* the members of an object after its "{", acc being those read so far
ParseMembers(toks, acc) ==
    IF Len(toks) < 2 \/ toks[1] \notin StringLexemes \/ toks[2] # ":"
    THEN SyntaxError
    ELSE AfterMember(Unquote(toks[1]), ParseValue(Drop(toks, 3)), acc)

\* the value of a text parsed to its end, or the SyntaxError thrown
WholeText(r) == IF r.ok /\ r.rest = <<>> THEN Return(r.value) ELSE Throw

\* JSON.parse(text)
JSONparse(cs) == WholeText(ParseValue(cs))

----------------------------------------------------------------------------
(* src/app/api/locations/route.ts: rows and records *)

\* row.key: the property, undefined (here null) when the row has none
Field(row, key) ==
    IF row.type = "object" /\ key \in DOMAIN row.fields
    THEN row.fields[key]
    ELSE JNull

\* Array.isArray(c) && c.length >= 2
IsPair(c) == c.type = "array" /\ Len(c.items) >= 2

\* a variant that reads a coordinates array as [lat, lng]
Unswapped(c) == <<c.items[1], c.items[2]>>

\* [lat, lng] of a coordinates array [lng, lat]
Swapped(c) == <<c.items[2], c.items[1]>>

\* a variant without the try: a text that does not parse, or parses to
\* null, makes extractCoordinates throw
FromParsedUncaught(parsed) ==
    IF parsed.threw \/ parsed.value.type = "null"
    THEN Throw
    ELSE IF IsPair(Field(parsed.value, "coordinates"))
    THEN Return(Swapped(Field(parsed.value, "coordinates")))
    ELSE Return(<<JNull, JNull>>)

\* the try block of extractCoordinates on the outcome of JSON.parse: reading
\* parsed.coordinates of null throws, and the throw is caught like the
\* SyntaxError
FromParsed(parsed) ==
    IF ~parsed.threw /\ parsed.value.type # "null"
       /\ IsPair(Field(parsed.value, "coordinates"))
    THEN Return(Swapped(Field(parsed.value, "coordinates")))
    ELSE Return(<<JNull, JNull>>)

\* the two geometry steps of extractCoordinates
FromGeometry(geom) ==
    IF geom.type = "object" /\ "coordinates" \in DOMAIN geom.fields
       /\ IsPair(geom.fields["coordinates"])
    THEN Return(Swapped(geom.fields["coordinates"]))
    ELSE IF geom.type = "string" /\ Truthy(geom)
    THEN FromParsed(JSONparse(geom.chars))
    ELSE Return(<<JNull, JNull>>)

\* extractCoordinates(row): the pair [latitude, longitude]; reading a
\* property of a null row throws
extractCoordinates(row) ==
    IF row.type = "null"
    THEN Throw
    ELSE IF IsNumber(Field(row, "latitude")) /\ IsNumber(Field(row, "longitude"))
    THEN Return(<<Field(row, "latitude"), Field(row, "longitude")>>)
    ELSE IF IsNumber(Field(row, "lat")) /\ IsNumber(Field(row, "lng"))
    THEN Return(<<Field(row, "lat"), Field(row, "lng")>>)
    ELSE FromGeometry(Field(row, "geom"))

\* the object toLocationRecord returns, coords being the outcome of
\* extractCoordinates: the fields of LocationRecord the pipeline reads
RecordOf(row, coords) ==
    IF coords.threw
    THEN Throw
    ELSE Return([id |-> Field(row, "id"),
                 category |-> Field(row, "category"),
                 meters |-> Coalesce(Field(row, "meters"), JNull),
                 hours |-> Coalesce(Field(row, "hours"), JNull),
                 accessible |-> Coalesce(Field(row, "accessible"), JNull),
                 pets_allowed |-> Coalesce(Field(row, "pets_allowed"), JNull),
                 gender_restriction |->
                     Coalesce(Field(row, "gender_restriction"), JNull),
                 latitude |-> coords.value[1],
                 longitude |-> coords.value[2]])

toLocationRecord(row) == RecordOf(row, extractCoordinates(row))

\* the outcome first of one callback before the outcomes others of the
\* rest: a throw ends the loop
Prepend(first, others) ==
    IF first.threw \/ others.threw
    THEN Throw
    ELSE Return(first.value \o others.value)

\* a one-element list of the value of a call, the throw kept
Single(outcome) ==
    IF outcome.threw THEN Throw ELSE Return(<<outcome.value>>)

\* data.map(toLocationRecord), the first throw ending it
RECURSIVE MapToLocationRecord(_)
MapToLocationRecord(rows) ==
    IF rows = <<>>
    THEN Return(<<>>)
    ELSE Prepend(Single(toLocationRecord(rows[1])),
                 MapToLocationRecord(Tail(rows)))

----------------------------------------------------------------------------
(* src/app/api/locations/route.ts: applyFilters *)

\* a === b of two primitive values
StrictEq(a, b) == a.type # "NaN" /\ a = b

\* a variant that tests the distance for truthiness: 0 counts as missing
FillDistanceFalsy(record, lat, lng) ==
    IF Truthy(record.meters)
    THEN record
    ELSE attachDistance(record, lat, lng)

\* the .map callback: a record that carries a distance is kept as it is
FillDistance(record, lat, lng) ==
    IF ~IsNullish(record.meters)
    THEN record
    ELSE attachDistance(record, lat, lng)

\* a variant with no radius test
BeyondRadiusNever(record, radiusKm) == FALSE

\* the radius test of the .filter callback: true when it drops the record
BeyondRadius(record, radiusKm) ==
    /\ ~IsNullish(record.meters)
    /\ IsFinite(record.meters)
    /\ record.meters.num > radiusKm.num * 1000

\* a variant that does not read the outcome of the open-now test
OpenAndNearIgnoringHours(record, f, open) ==
    IF open.threw
    THEN Throw
    ELSE Return(~BeyondRadius(record, f.radiusKm))

\* the end of the .filter callback, open being the outcome of the open-now
\* test
OpenAndNear(record, f, open) ==
    IF open.threw
    THEN Throw
    ELSE IF ~open.value
    THEN Return(FALSE)
    ELSE Return(~BeyondRadius(record, f.radiusKm))

\* a variant that lets a record with an unknown flag pass a flag filter
KeepUnknownFlags(record, f, date) ==
    IF Truthy(f.category) /\ ~StrictEq(record.category, f.category)
    THEN Return(FALSE)
    ELSE IF ~IsNullish(f.accessible) /\ ~IsNullish(record.accessible)
            /\ ~StrictEq(record.accessible, f.accessible)
    THEN Return(FALSE)
    ELSE IF ~IsNullish(f.pets) /\ ~IsNullish(record.pets_allowed)
            /\ ~StrictEq(record.pets_allowed, f.pets)
    THEN Return(FALSE)
    ELSE IF Truthy(f.gender) /\ Truthy(record.gender_restriction)
            /\ ~StrictEq(record.gender_restriction, f.gender)
    THEN Return(FALSE)
    ELSE OpenAndNear(record, f,
                     IF Truthy(f.openNow)
                     THEN isOpenNow(record.hours, date)
                     ELSE Return(TRUE))

\* a variant of which the gender test lets the restriction "all" pass, as
\* the WHERE clause of nearby_locations does
KeepOpenToAll(record, f, date) ==
    IF Truthy(f.category) /\ ~StrictEq(record.category, f.category)
    THEN Return(FALSE)
    ELSE IF ~IsNullish(f.accessible) /\ ~StrictEq(record.accessible, f.accessible)
    THEN Return(FALSE)
    ELSE IF ~IsNullish(f.pets) /\ ~StrictEq(record.pets_allowed, f.pets)
    THEN Return(FALSE)
    ELSE IF Truthy(f.gender) /\ Truthy(record.gender_restriction)
            /\ ~StrictEq(record.gender_restriction, f.gender)
            /\ ~StrictEq(record.gender_restriction,
                         JStr(<<"a", "l", "l">>))
    THEN Return(FALSE)
    ELSE OpenAndNear(record, f,
                     IF Truthy(f.openNow)
                     THEN isOpenNow(record.hours, date)
                     ELSE Return(TRUE))

\* a variant that runs the open-now test whether or not the filter asks
\* for it
KeepAlwaysOpenTest(record, f, date) ==
    IF Truthy(f.category) /\ ~StrictEq(record.category, f.category)
    THEN Return(FALSE)
    ELSE IF ~IsNullish(f.accessible) /\ ~StrictEq(record.accessible, f.accessible)
    THEN Return(FALSE)
    ELSE IF ~IsNullish(f.pets) /\ ~StrictEq(record.pets_allowed, f.pets)
    THEN Return(FALSE)
    ELSE IF Truthy(f.gender) /\ Truthy(record.gender_restriction)
            /\ ~StrictEq(record.gender_restriction, f.gender)
    THEN Return(FALSE)
    ELSE OpenAndNear(record, f, isOpenNow(record.hours, date))

\* the .filter callback on one record: keep (TRUE), drop (FALSE), or the
\* throw of isOpenNow, which is called only for a record that passed the
\* tests before it
Keep(record, f, date) ==
    IF Truthy(f.category) /\ ~StrictEq(record.category, f.category)
    THEN Return(FALSE)
    ELSE IF ~IsNullish(f.accessible) /\ ~StrictEq(record.accessible, f.accessible)
    THEN Return(FALSE)
    ELSE IF ~IsNullish(f.pets) /\ ~StrictEq(record.pets_allowed, f.pets)
    THEN Return(FALSE)
    ELSE IF Truthy(f.gender) /\ Truthy(record.gender_restriction)
            /\ ~StrictEq(record.gender_restriction, f.gender)
    THEN Return(FALSE)
    ELSE OpenAndNear(record, f,
                     IF Truthy(f.openNow)
                     THEN isOpenNow(record.hours, date)
                     ELSE Return(TRUE))

\* the record when the callback kept it, nothing when it dropped it
Kept(record, outcome) ==
    IF outcome.threw THEN Throw
    ELSE Return(IF outcome.value THEN <<record>> ELSE <<>>)

\* records.filter(...), the first throw ending it
RECURSIVE FilterRecords(_, _, _)
FilterRecords(records, f, date) ==
    IF records = <<>>
    THEN Return(<<>>)
    ELSE Prepend(Kept(records[1], Keep(records[1], f, date)),
                 FilterRecords(Tail(records), f, date))

\* a variant of the comparator that reads an absent distance as 0
CompareDistanceAbsentAsZero(a, b) ==
    LET da == IF IsNullish(a.meters) THEN 0 ELSE a.meters.num
        db == IF IsNullish(b.meters) THEN 0 ELSE b.meters.num
    IN IF da < db THEN -1 ELSE IF da > db THEN 1 ELSE 0

\* the sign of the comparator (a.meters ?? Infinity) - (b.meters ?? Infinity);
\* Infinity - Infinity and anything with NaN are NaN, which sort reads as 0
CompareDistance(a, b) ==
    LET da == a.meters
        db == b.meters
    IN CASE da.type = "NaN" \/ db.type = "NaN" -> 0
         [] IsNullish(da) /\ IsNullish(db) -> 0
         [] IsNullish(da) -> 1
         [] IsNullish(db) -> -1
         [] da.num < db.num -> -1
         [] da.num > db.num -> 1
         [] OTHER -> 0

\* one step of the stable sort: x is placed after every element of the
\* sorted prefix that does not compare greater than it
RECURSIVE InsertByDistance(_, _)
InsertByDistance(sorted, x) ==
    IF sorted # <<>> /\ CompareDistance(sorted[Len(sorted)], x) > 0
    THEN Append(InsertByDistance(SubSeq(sorted, 1, Len(sorted) - 1), x),
                sorted[Len(sorted)])
    ELSE Append(sorted, x)

\* records.sort(comparator): Array.prototype.sort is stable
RECURSIVE SortByDistance(_)
SortByDistance(records) ==
    IF records = <<>>
    THEN <<>>
    ELSE InsertByDistance(SortByDistance(SubSeq(records, 1, Len(records) - 1)),
                          records[Len(records)])

\* a variant that does not cut the list
SliceAll(list, n) == list

\* list.slice(0, n)
Slice(list, n) == SubSeq(list, 1, IF Len(list) < n THEN Len(list) ELSE n)

\* a variant that cuts the list before it sorts it
SliceThenSort(kept) ==
    IF kept.threw
    THEN Throw
    ELSE Return(SortByDistance(Slice(kept.value, MAX_RESULTS)))

\* .sort(...).slice(0, MAX_RESULTS) of what the filter kept
SortAndSlice(kept) ==
    IF kept.threw
    THEN Throw
    ELSE Return(Slice(SortByDistance(kept.value), MAX_RESULTS))

\* records.map(...): the distance fill
FillDistances(records, lat, lng) ==
    [i \in 1..Len(records) |-> FillDistance(records[i], lat, lng)]

\* applyFilters(records, filters), with the date new Date() gives isOpenNow
applyFilters(records, f, date) ==
    SortAndSlice(FilterRecords(FillDistances(records, f.lat, f.lng), f, date))

\* NextResponse.json({ results: filtered })
JsonResults(filtered) ==
    IF filtered.threw
    THEN Throw
    ELSE Return([status |-> 200, body |-> [results |-> filtered.value]])

\* buildResponse(records, filters)
buildResponse(records, f, date) == JsonResults(applyFilters(records, f, date))

----------------------------------------------------------------------------
(* The data of the model *)

Shelter == JStr(<<"s", "h", "e", "l", "t", "e", "r">>)
FoodBank == JStr(<<"f", "o", "o", "d", "_", "b", "a", "n", "k">>)
Women == JStr(<<"w", "o", "m", "e", "n">>)
Men == JStr(<<"m", "e", "n">>)
All == JStr(<<"a", "l", "l">>)
EmptyString == JStr(<<>>)

\* the string "HH:MM" of a clock time
TimeString(h, m) ==
    JStr(<<Digit(h \div 10), Digit(h % 10), ":", Digit(m \div 10), Digit(m % 10)>>)

\* the interval [start, end] of a schedule, and a day's list of intervals
Interval(start, end) == JArr(<<start, end>>)
NineToFive == Interval(TimeString(9, 0), TimeString(17, 0))
Overnight == Interval(TimeString(22, 0), TimeString(2, 0))

\* what new Date() can return where the GET handler runs: getDay(),
\* getHours(), getMinutes()
Date(day, hours, minutes) == [day |-> day, hours |-> hours, minutes |-> minutes]
RequestDates == {Date(1, 10, 0), Date(1, 18, 0), Date(2, 1, 30)}

\* src/data/mock-locations.ts is not among the sources: a small fixed
\* dataset of records that carry the canonical latitude and longitude
mockLocations ==
    << [id |-> JNum(101), category |-> Shelter, meters |-> JNull,
        hours |-> JObj([mon |-> JArr(<<NineToFive>>), tue |-> JArr(<<Overnight>>)]),
        accessible |-> JBool(TRUE), pets_allowed |-> JBool(FALSE),
        gender_restriction |-> Women,
        latitude |-> JNum(1), longitude |-> JNum(1)],
       [id |-> JNum(102), category |-> FoodBank, meters |-> JNull,
        hours |-> JNull,
        accessible |-> JNull, pets_allowed |-> JBool(TRUE),
        gender_restriction |-> JNull,
        latitude |-> JNum(0), longitude |-> JNum(1)],
       [id |-> JNum(103), category |-> Shelter, meters |-> JNull,
        hours |-> JObj([mon |-> JArr(<<>>)]),
        accessible |-> JBool(TRUE), pets_allowed |-> JNull,
        gender_restriction |-> All,
        latitude |-> JNum(1), longitude |-> JNum(2)] >>

\* the rows nearby_locations can answer with (supabase/schema.sql returns
\* latitude and longitude; route.ts also reads lat, lng and geom)
RowShelter ==
    JObj([id |-> JNum(1), category |-> Shelter, meters |-> JNum(800),
          hours |-> JObj([mon |-> JArr(<<NineToFive>>)]),
          accessible |-> JBool(TRUE), pets_allowed |-> JBool(FALSE),
          gender_restriction |-> Women,
          latitude |-> JNum(1), longitude |-> JNum(1)])
RowFoodBank ==
    JObj([id |-> JNum(2), category |-> FoodBank, meters |-> JNum(300),
          hours |-> JNull, accessible |-> JNull, pets_allowed |-> JBool(TRUE),
          gender_restriction |-> JNull,
          lat |-> JNum(1), lng |-> JNum(1)])
RowGeometry ==
    JObj([id |-> JNum(3), category |-> Shelter,
          hours |-> JObj([tue |-> JArr(<<Overnight>>)]),
          accessible |-> JBool(TRUE), pets_allowed |-> JNull,
          gender_restriction |-> All,
          geom |-> JObj([type |-> JStr(<<"Point">>),
                         coordinates |-> JArr(<<JNum(2), JNum(1)>>)])])
RowFar ==
    JObj([id |-> JNum(4), category |-> Shelter, meters |-> JNum(250000),
          hours |-> JObj([mon |-> JArr(<<NineToFive>>), tue |-> JArr(<<Overnight>>)]),
          accessible |-> JBool(TRUE), pets_allowed |-> JBool(TRUE),
          gender_restriction |-> JNull,
          latitude |-> JNum(2), longitude |-> JNum(2)])
RowNowhere ==
    JObj([id |-> JNum(5), category |-> Shelter, meters |-> JNull,
          hours |-> JObj([mon |-> JArr(<<NineToFive, Overnight>>)]),
          accessible |-> JBool(FALSE), pets_allowed |-> JBool(FALSE),
          gender_restriction |-> JNull,
          geom |-> JStr(<<"x">>)])
RowBadHours ==
    JObj([id |-> JNum(6), category |-> Shelter, meters |-> JNum(100),
          hours |-> JObj([mon |-> JArr(<<Interval(JNum(900), JNum(1700))>>)]),
          accessible |-> JBool(TRUE), pets_allowed |-> JBool(FALSE),
          gender_restriction |-> Women,
          latitude |-> JNum(1), longitude |-> JNum(1)])

\* a row of which the geometry text parses to null
RowPointless ==
    JObj([id |-> JNum(7), category |-> Shelter, meters |-> JNull,
          hours |-> JObj([mon |-> JArr(<<NineToFive>>)]),
          accessible |-> JBool(TRUE), pets_allowed |-> JBool(FALSE),
          gender_restriction |-> JNull,
          geom |-> JStr(<<"null">>)])

StoreRows == {RowShelter, RowFoodBank, RowGeometry, RowFar, RowNowhere,
              RowPointless, RowBadHours, JNull}

\* the most rows one answer of the store holds
MaxRows == 2

\* the sequences over S of length at most n
SeqUpTo(S, n) == UNION {[1..k -> S] : k \in 0..n}

\* what the awaited rpc call can settle with: a rejection (a transport
\* failure), or { data, error } with an error payload, with no data, with
\* data that is no array, or with rows
Rejected == [kind |-> "rejected", data |-> JNull, error |-> JNull]
Settled(data, error) == [kind |-> "settled", data |-> data, error |-> error]
StoreReplies ==
    {Rejected,
     Settled(JNull, JObj([message |-> JStr(<<"x">>)])),
     Settled(JNull, JNull),
     Settled(JObj([message |-> JStr(<<"x">>)]), JNull)}
    \cup {Settled(JArr(rows), JNull) : rows \in SeqUpTo(StoreRows, MaxRows)}

\* the query strings of the requests
Param(cs) == JStr(cs)
Queries ==
    [lat : {JNull, Param(<<"x">>), Param(<<"1">>), Param(<<" ", "0", "x">>)},
     lng : {JNull, Param(<<"-">>), Param(<<"1">>)},
     radius_km : {JNull, Param(<<"2", "0", "0">>)},
     category : {JNull, Param(Shelter.chars)},
     open_now : {JNull, Param(<<"T", "R", "U", "E">>)},
     accessible : {JNull, Param(<<"1">>)},
     pets : {JNull, Param(<<"n", "o", "p", "e">>)},
     gender : {JNull, Param(Women.chars)}]

----------------------------------------------------------------------------
(* src/app/api/locations/route.ts: GET *)

BadRequest ==
    [status |-> 400,
     body |-> [error |-> "Query parameters 'lat' and 'lng' are required."]]

\* the response of a handler that threw
ServerError == [status |-> 500, body |-> [error |-> "unhandled"]]

\* a variant that rejects a request only when both coordinates are missing
MissingBothCoordinates(q) ==
    IsNullish(parseNumber(q.lat)) /\ IsNullish(parseNumber(q.lng))

\* lat === null || lng === null
MissingCoordinates(q) ==
    IsNullish(parseNumber(q.lat)) \/ IsNullish(parseNumber(q.lng))

\* the filterOptions object
FilterOptionsOf(q) ==
    [category |-> q.category,
     openNow |-> Coalesce(parseBooleanParam(q.open_now), JBool(FALSE)),
     accessible |-> parseBooleanParam(q.accessible),
     pets |-> parseBooleanParam(q.pets),
     gender |-> Coalesce(q.gender, JNull),
     radiusKm |-> Coalesce(parseNumber(q.radius_km), JNum(DEFAULT_RADIUS_KM)),
     lat |-> parseNumber(q.lat),
     lng |-> parseNumber(q.lng)]

\* mockLocations.map((record) => ({ ...record, meters: null }))
FallbackRecords ==
    [i \in 1..Len(mockLocations) |-> [mockLocations[i] EXCEPT !.meters = JNull]]

\* what the handler does after its await
NoReturn == [returned |-> FALSE, records |-> <<>>, response |-> ServerError]
Returned(records, built) ==
    IF built.threw
    THEN NoReturn
    ELSE [returned |-> TRUE, records |-> records, response |-> built.value]

\* return buildResponse(records, filterOptions), records being the outcome
\* of data.map(toLocationRecord)
ReturnRows(records, f, date) ==
    IF records.threw
    THEN NoReturn
    ELSE Returned(records.value, buildResponse(records.value, f, date))

\* a variant with no catch: a rejected call ends the request with the
\* error response
TryStoreUncaught(r, f, date) ==
    IF r.kind = "rejected"
    THEN [returned |-> TRUE, records |-> <<>>, response |-> ServerError]
    ELSE IF Truthy(r.error) \/ ~Truthy(r.data)
    THEN NoReturn
    ELSE IF r.data.type # "array"
    THEN NoReturn
    ELSE ReturnRows(MapToLocationRecord(r.data.items), f, date)

\* the try block after the await: the response it returns, or nothing when
\* it logs a warning (an error payload, a throw) or finds no data
TryStore(r, f, date) ==
    IF r.kind = "rejected" \/ Truthy(r.error) \/ ~Truthy(r.data)
    THEN NoReturn
    ELSE IF r.data.type # "array"
    THEN NoReturn
    ELSE ReturnRows(MapToLocationRecord(r.data.items), f, date)

\* the fallback path: buildResponse(fallbackRecords, filterOptions); a throw
\* is not caught there
Fallback(f, date) ==
    Returned(FallbackRecords, buildResponse(FallbackRecords, f, date))

Init ==
    /\ pc = "idle"
    /\ query = <<>>
    /\ filterOptions = <<>>
    /\ reply = <<>>
    /\ candidates = <<>>
    /\ evaluatedAt = <<>>
    /\ response = <<>>
    /\ rpcCalls = 0
    /\ fallbackReads = 0
    /\ dataset = mockLocations
    /\ fn = "GET"
    /\ arg = <<>>
    /\ ret = <<>>

\* GET with lat or lng missing or not a number: the 400 response
GETRejects(q) ==
    /\ pc = "idle"
    /\ MissingCoordinates(q)
    /\ pc' = "done"
    /\ query' = q
    /\ response' = BadRequest
    /\ UNCHANGED <<filterOptions, reply, candidates, evaluatedAt, rpcCalls,
                   fallbackReads, dataset, fn, arg, ret>>

\* the end of a request served from the fallback records
ServeFallback(served, date) ==
    /\ pc' = "done"
    /\ candidates' = FallbackRecords
    /\ evaluatedAt' = date
    /\ fallbackReads' = fallbackReads + 1
    /\ response' = served.response

\* GET when getSupabaseClient() returns null: straight to the fallback
GETWithoutClient(q, date) ==
    /\ pc = "idle"
    /\ ~MissingCoordinates(q)
    /\ query' = q
    /\ filterOptions' = FilterOptionsOf(q)
    /\ ServeFallback(Fallback(FilterOptionsOf(q), date), date)
    /\ UNCHANGED <<reply, rpcCalls, dataset, fn, arg, ret>>

\* a variant that issues the rpc call again while the first one is pending
GETCallsStoreAgain(q) ==
    /\ pc \in {"idle", "awaiting"}
    /\ ~MissingCoordinates(q)
    /\ pc' = "awaiting"
    /\ query' = q
    /\ filterOptions' = FilterOptionsOf(q)
    /\ rpcCalls' = rpcCalls + 1
    /\ UNCHANGED <<reply, candidates, evaluatedAt, response, fallbackReads,
                   dataset, fn, arg, ret>>

\* GET up to its await: the rpc call is issued
GETCallsStore(q) ==
    /\ pc = "idle"
    /\ ~MissingCoordinates(q)
    /\ pc' = "awaiting"
    /\ query' = q
    /\ filterOptions' = FilterOptionsOf(q)
    /\ rpcCalls' = rpcCalls + 1
    /\ UNCHANGED <<reply, candidates, evaluatedAt, response, fallbackReads,
                   dataset, fn, arg, ret>>

\* the end of a request the try block answered
ServeRows(attempt, date) ==
    /\ attempt.returned
    /\ pc' = "done"
    /\ candidates' = attempt.records
    /\ evaluatedAt' = date
    /\ response' = attempt.response
    /\ UNCHANGED fallbackReads

\* GET from its await on, the call having settled with r: the response of
\* the try block
GETReturnsStoreRows(r, date) ==
    /\ pc = "awaiting"
    /\ reply' = r
    /\ ServeRows(TryStore(r, filterOptions, date), date)
    /\ UNCHANGED <<query, filterOptions, rpcCalls, dataset, fn, arg, ret>>

\* the fallback after a try block that returned nothing
ServeAfterFailure(attempt, f, date) ==
    /\ ~attempt.returned
    /\ ServeFallback(Fallback(f, date), date)

\* GET from its await on, the try block having returned nothing: the
\* fallback
GETFallsBack(r, date) ==
    /\ pc = "awaiting"
    /\ reply' = r
    /\ ServeAfterFailure(TryStore(r, filterOptions, date), filterOptions, date)
    /\ UNCHANGED <<query, filterOptions, rpcCalls, dataset, fn, arg, ret>>

\* the next request is served by a fresh call of GET
NextRequest ==
    /\ pc = "done"
    /\ pc' = "idle"
    /\ query' = <<>>
    /\ filterOptions' = <<>>
    /\ reply' = <<>>
    /\ candidates' = <<>>
    /\ evaluatedAt' = <<>>
    /\ response' = <<>>
    /\ rpcCalls' = 0
    /\ fallbackReads' = 0
    /\ UNCHANGED <<dataset, fn, arg, ret>>

Next ==
    \/ \E q \in Queries : GETRejects(q)
    \/ \E q \in Queries, date \in RequestDates : GETWithoutClient(q, date)
    \/ \E q \in Queries : GETCallsStore(q)
    \/ \E r \in StoreReplies, date \in RequestDates : GETReturnsStoreRows(r, date)
    \/ \E r \in StoreReplies, date \in RequestDates : GETFallsBack(r, date)
    \/ NextRequest

Spec == Init /\ [][Next]_vars

----------------------------------------------------------------------------
(* Function-level specifications: Init draws the argument of one function  *)
(* from a bounded set and the action applies the function to it.           *)

\* the handler's variables while no request is served
NoRequest ==
    /\ pc = "idle"
    /\ query = <<>>
    /\ filterOptions = <<>>
    /\ reply = <<>>
    /\ candidates = <<>>
    /\ evaluatedAt = <<>>
    /\ response = <<>>
    /\ rpcCalls = 0
    /\ fallbackReads = 0
    /\ dataset = mockLocations

handlerVars == <<pc, query, filterOptions, reply, candidates, evaluatedAt,
                 response, rpcCalls, fallbackReads, dataset>>

\* the call of the function fn on arg returns (or throws) outcome
Returns(name, outcome) ==
    /\ fn = name
    /\ ret = << >>
    /\ ret' = <<outcome>>
    /\ UNCHANGED <<handlerVars, fn, arg>>

(* isOpenNow on schedules of well-formed "HH:MM" strings *)

\* the clock times the schedules are written with, as <<hours, minutes>>
ScheduleTimes == {<<2, 0>>, <<9, 0>>, <<17, 0>>, <<22, 0>>}
ScheduleIntervals ==
    {Interval(TimeString(s[1], s[2]), TimeString(e[1], e[2])) :
        s \in ScheduleTimes, e \in ScheduleTimes}

\* the most intervals one day of a schedule lists
MaxIntervals == 2

\* the schedules: none, or one that lists Monday
Schedules ==
    {JNull} \cup {JObj([mon |-> JArr(list)]) :
                    list \in SeqUpTo(ScheduleIntervals, MaxIntervals)}

\* the dates isOpenNow is asked about: Monday and Tuesday
ClockTimes == {<<0, 0>>, <<1, 30>>, <<9, 0>>, <<12, 0>>, <<16, 59>>,
               <<17, 0>>, <<23, 30>>}
ReferenceDates == {Date(d, t[1], t[2]) : d \in {1, 2}, t \in ClockTimes}

InitHours ==
    /\ NoRequest
    /\ fn = "isOpenNow"
    /\ arg \in [hours : Schedules, referenceDate : ReferenceDates]
    /\ ret = << >>

CallIsOpenNow == Returns("isOpenNow", isOpenNow(arg.hours, arg.referenceDate))

SpecHours == InitHours /\ [][CallIsOpenNow]_vars

----------------------------------------------------------------------------
(* C9: on schedules of well-formed "HH:MM" strings isOpenNow(S, T) is true *)
(* exactly when S is present, lists at least one interval for T's weekday, *)
(* and one of them contains T's minute of the day m: m in [start, end)     *)
(* when start <= end, m in [start, 1440) or [0, end) when start > end.     *)

\* the minute of the day a well-formed "HH:MM" string denotes
MinuteOfDay(time) ==
    CHOOSE n \in 0..1439 : TimeString(n \div 60, n % 60) = time

\* containment as the claim states it, on minutes of the day
ClaimedContains(start, end, m) ==
    IF start <= end
    THEN start <= m /\ m < end
    ELSE (start <= m /\ m < 1440) \/ (0 <= m /\ m < end)

\* the claimed value of isOpenNow(S, T)
ClaimedOpen(S, T) ==
    /\ S # JNull
    /\ dayKeys[T.day + 1] \in DOMAIN S.fields
    /\ \E i \in 1..Len(S.fields[dayKeys[T.day + 1]].items) :
          LET interval == S.fields[dayKeys[T.day + 1]].items[i].items
          IN ClaimedContains(MinuteOfDay(interval[1]), MinuteOfDay(interval[2]),
                             T.hours * 60 + T.minutes)

C9_IsOpenNowIffContained ==
    (fn = "isOpenNow" /\ ret # << >>) =>
        /\ ~ret[1].threw
        /\ ret[1].value = ClaimedOpen(arg.hours, arg.referenceDate)

\* the overnight interval [22:00, 02:00] found open at 01:30
C9_Witness ==
    /\ fn = "isOpenNow"
    /\ ret # << >>
    /\ arg.hours = JObj([mon |-> JArr(<<Overnight>>)])
    /\ arg.referenceDate = Date(1, 1, 30)
    /\ ret[1] = Return(TRUE)

----------------------------------------------------------------------------
(* extractCoordinates on the shapes a row can have *)

\* the point (latitude, longitude) as a GeoJSON object and as its text
GeoJSON(lat, lng) ==
    JObj([type |-> JStr(<<"Point">>),
          coordinates |-> JArr(<<JNum(lng), JNum(lat)>>)])
GeoJSONText(lat, lng) ==
    JStr(<<"{", "\"type\"", ":", "\"Point\"", ",", "\"coordinates\"", ":",
           "[", Digit(lng), ",", Digit(lat), "]", "}">>)

\* the points the geometries of the rows encode
GeometryPoints == {<<1, 2>>, <<0, 1>>}

\* geometry values that give no coordinates pair: no geometry, an object
\* without coordinates, coordinates that are no pair, texts that do not
\* parse (binary, cut short), texts that parse to something else
BrokenGeometries ==
    {JNull,
     JObj([type |-> JStr(<<"Point">>)]),
     JObj([type |-> JStr(<<"Point">>), coordinates |-> JArr(<<JNum(2)>>)]),
     JObj([type |-> JStr(<<"Point">>), coordinates |-> JNum(2)]),
     JArr(<<JNum(2), JNum(1)>>),
     JStr(<<>>),
     JStr(<<"0", "1", "0", "1", "x">>),
     JStr(<<"{", "\"coordinates\"", ":", "[", "2", ",", "1">>),
     JStr(<<"null">>),
     JStr(<<"[", "2", ",", "1", "]">>),
     JStr(<<"{", "\"coordinates\"", ":", "[", "2", "]", "}">>),
     JStr(<<"{", "}">>)}

Geometries ==
    {GeoJSON(p[1], p[2]) : p \in GeometryPoints}
    \cup {GeoJSONText(p[1], p[2]) : p \in GeometryPoints}
    \cup BrokenGeometries

\* the rows: every combination of the coordinate fields and a geometry
CoordinateRows ==
    {JObj(fields) :
        fields \in [latitude : {JNull, JNum(2), JStr(<<"2">>)},
                    longitude : {JNull, JNum(0)},
                    lat : {JNull, JNum(1)},
                    lng : {JNull, JNum(1), JBool(TRUE)},
                    geom : Geometries]}

InitCoordinates ==
    /\ NoRequest
    /\ fn = "extractCoordinates"
    /\ arg \in CoordinateRows
    /\ ret = << >>

CallExtractCoordinates ==
    Returns("extractCoordinates", extractCoordinates(arg))

SpecCoordinates == InitCoordinates /\ [][CallExtractCoordinates]_vars

----------------------------------------------------------------------------
(* C10: extractCoordinates takes the first shape that matches, in the      *)
(* order: numeric latitude and longitude; numeric lat and lng; a geometry  *)
(* object, its coordinates read as (longitude, latitude); a geometry text  *)
(* of the same form; else both absent.  A row that gives a point by lat    *)
(* and lng and a row that gives it by a geometry resolve to the same pair. *)

Numeric(v) == v.type = "number"

\* the point a well-formed geometry encodes, <<>> when it encodes none
EncodedPoint(geom) ==
    IF \E p \in GeometryPoints : geom \in {GeoJSON(p[1], p[2]), GeoJSONText(p[1], p[2])}
    THEN CHOOSE p \in GeometryPoints :
            geom \in {GeoJSON(p[1], p[2]), GeoJSONText(p[1], p[2])}
    ELSE << >>

\* the pair the claimed order gives a row
ClaimedCoordinates(row) ==
    LET r == row.fields
    IN IF Numeric(r.latitude) /\ Numeric(r.longitude)
       THEN <<r.latitude, r.longitude>>
       ELSE IF Numeric(r.lat) /\ Numeric(r.lng)
       THEN <<r.lat, r.lng>>
       ELSE IF EncodedPoint(r.geom) # << >>
       THEN <<JNum(EncodedPoint(r.geom)[1]), JNum(EncodedPoint(r.geom)[2])>>
       ELSE <<JNull, JNull>>

C10_CoordinatesByPriority ==
    (fn = "extractCoordinates" /\ ret # << >>) =>
        ret[1] = Return(ClaimedCoordinates(arg))

\* a geometry text resolved for a row whose latitude has no longitude
C10_Witness ==
    /\ fn = "extractCoordinates"
    /\ ret # << >>
    /\ arg.fields.latitude = JNum(2)
    /\ arg.fields.longitude = JNull
    /\ arg.fields.lat = JNull
    /\ arg.fields.geom = GeoJSONText(1, 2)
    /\ ret[1] = Return(<<JNum(1), JNum(2)>>)

----------------------------------------------------------------------------
(* applyFilters on lists of records *)

FlagValues == {JNull, JBool(TRUE), JBool(FALSE)}

\* one record 800 m away for every combination of the fields the exact
\* match filters read
ProfileRecords ==
    {[id |-> JNum(1), category |-> c, meters |-> JNum(800),
      hours |-> JObj([mon |-> JArr(<<NineToFive>>)]),
      accessible |-> a, pets_allowed |-> p, gender_restriction |-> g,
      latitude |-> JNum(1), longitude |-> JNum(1)] :
        c \in {Shelter, FoodBank}, a \in FlagValues, p \in FlagValues,
        g \in {JNull, Women, All}}

\* every combination of the exact match filters; category and gender come
\* from searchParams.get and can be the empty string
ProfileCriteria ==
    [category : {JNull, EmptyString, Shelter},
     openNow : {JBool(FALSE)},
     accessible : FlagValues,
     pets : FlagValues,
     gender : {JNull, EmptyString, Women, All},
     radiusKm : {JNum(DEFAULT_RADIUS_KM)},
     lat : {JNum(1)},
     lng : {JNum(1)}]

ProfileArgs ==
    [records : {<<r>> : r \in ProfileRecords},
     f : ProfileCriteria,
     date : {Date(1, 10, 0)}]

\* records at several distances: given by the store, to be computed from
\* the coordinates (111178 m from the origin), or not computable
Near ==
    [id |-> JNum(11), category |-> Shelter, meters |-> JNum(300),
     hours |-> JObj([mon |-> JArr(<<NineToFive>>)]),
     accessible |-> JBool(TRUE), pets_allowed |-> JBool(FALSE),
     gender_restriction |-> Women, latitude |-> JNum(1), longitude |-> JNum(1)]
Mid ==
    [id |-> JNum(12), category |-> FoodBank, meters |-> JNum(800),
     hours |-> JNull, accessible |-> JNull, pets_allowed |-> JBool(TRUE),
     gender_restriction |-> JNull, latitude |-> JNum(0), longitude |-> JNum(1)]
MidTwin ==
    [id |-> JNum(13), category |-> Shelter, meters |-> JNum(800),
     hours |-> JObj([mon |-> JArr(<<Overnight>>)]),
     accessible |-> JBool(FALSE), pets_allowed |-> JNull,
     gender_restriction |-> All, latitude |-> JNum(1), longitude |-> JNum(2)]
Far ==
    [id |-> JNum(14), category |-> Shelter, meters |-> JNum(6000),
     hours |-> JObj([mon |-> JArr(<<NineToFive>>)]),
     accessible |-> JBool(TRUE), pets_allowed |-> JBool(TRUE),
     gender_restriction |-> JNull, latitude |-> JNum(2), longitude |-> JNum(2)]
Unmeasured ==
    [id |-> JNum(15), category |-> Shelter, meters |-> JNull,
     hours |-> JObj([mon |-> JArr(<<NineToFive>>)]),
     accessible |-> JBool(TRUE), pets_allowed |-> JBool(TRUE),
     gender_restriction |-> JNull, latitude |-> JNum(1), longitude |-> JNum(2)]
Lost ==
    [id |-> JNum(16), category |-> Shelter, meters |-> JNull,
     hours |-> JObj([mon |-> JArr(<<NineToFive>>)]),
     accessible |-> JBool(TRUE), pets_allowed |-> JBool(TRUE),
     gender_restriction |-> JNull, latitude |-> JNull, longitude |-> JNum(1)]
LostTwin ==
    [id |-> JNum(17), category |-> FoodBank, meters |-> JNull,
     hours |-> JNull, accessible |-> JNull, pets_allowed |-> JNull,
     gender_restriction |-> JNull, latitude |-> JNull, longitude |-> JNull]

DistanceRecords == {Near, Mid, MidTwin, Far, Unmeasured, Lost, LostTwin}

\* the longest list of records drawn from DistanceRecords
MaxRecords == 3

\* the radii of the requests, in km
Radii == {0, DEFAULT_RADIUS_KM, 200}

ListCriteria ==
    [category : {JNull, Shelter},
     openNow : {JBool(FALSE), JBool(TRUE)},
     accessible : {JNull},
     pets : {JNull},
     gender : {JNull},
     radiusKm : {JNum(km) : km \in Radii},
     lat : {JNum(1)},
     lng : {JNum(1)}]

\* every list, in every order, at 10:00 on a Monday; under the open-now
\* filter at 18:00 as well
ListArgs ==
    {a \in [records : SeqUpTo(DistanceRecords, MaxRecords),
            f : ListCriteria,
            date : {Date(1, 10, 0), Date(1, 18, 0)}] :
        a.date = Date(1, 10, 0) \/ a.f.openNow = JBool(TRUE)}

\* the i-th record of a long list: every fifth one has no distance, the
\* others are at most 1000 m away
BulkRecord(i) ==
    [id |-> JNum(100 + i), category |-> Shelter,
     meters |-> IF i % 5 = 0 THEN JNull ELSE JNum(((i * 7) % 11) * 100),
     hours |-> JNull,
     accessible |-> JBool(i % 2 = 0), pets_allowed |-> JNull,
     gender_restriction |-> JNull, latitude |-> JNull, longitude |-> JNull]

\* the longest list handed to applyFilters
MaxBulk == 52

BulkArgs ==
    [records : {[i \in 1..n |-> BulkRecord(i)] : n \in (MAX_RESULTS - 1)..MaxBulk},
     f : [category : {JNull}, openNow : {JBool(FALSE)},
          accessible : {JNull, JBool(TRUE)}, pets : {JNull}, gender : {JNull},
          radiusKm : {JNum(DEFAULT_RADIUS_KM)}, lat : {JNum(1)}, lng : {JNum(1)}],
     date : {Date(1, 10, 0)}]

\* a record the store places 0 m away although its coordinates are not
\* those of any origin below
AtZero ==
    [id |-> JNum(18), category |-> Shelter, meters |-> JNum(0),
     hours |-> JNull, accessible |-> JNull, pets_allowed |-> JNull,
     gender_restriction |-> JNull, latitude |-> JNum(2), longitude |-> JNum(2)]

\* lists of at most two records with and without a distance, filtered for
\* requests from three origins
FillArgs ==
    [records : SeqUpTo({AtZero, Near, Unmeasured, Lost}, 2),
     f : [category : {JNull}, openNow : {JBool(FALSE)},
          accessible : {JNull}, pets : {JNull}, gender : {JNull},
          radiusKm : {JNum(200)},
          lat : {JNum(0), JNum(1)}, lng : {JNum(0), JNum(1)}],
     date : {Date(1, 10, 0)}]

\* the i-th record of a long list of which every record has a distance
\* within the radius: the distances repeat and do not come in order
MeasuredRecord(i) ==
    [id |-> JNum(200 + i), category |-> Shelter,
     meters |-> JNum(((i * 7) % 11) * 100),
     hours |-> JNull, accessible |-> JNull, pets_allowed |-> JNull,
     gender_restriction |-> JNull, latitude |-> JNull, longitude |-> JNull]

\* lists longer than the output can be, of records that all pass
MeasuredArgs ==
    [records : {[i \in 1..n |-> MeasuredRecord(i)] : n \in (MAX_RESULTS + 1)..MaxBulk},
     f : [category : {JNull}, openNow : {JBool(FALSE)},
          accessible : {JNull}, pets : {JNull}, gender : {JNull},
          radiusKm : {JNum(DEFAULT_RADIUS_KM)}, lat : {JNum(1)}, lng : {JNum(1)}],
     date : {Date(1, 10, 0)}]

InitFilter ==
    /\ NoRequest
    /\ fn = "applyFilters"
    /\ arg \in ProfileArgs \cup ListArgs \cup BulkArgs \cup FillArgs \cup MeasuredArgs
    /\ ret = << >>

CallApplyFilters ==
    Returns("applyFilters", applyFilters(arg.records, arg.f, arg.date))

SpecFilter == InitFilter /\ [][CallApplyFilters]_vars

----------------------------------------------------------------------------
(* The claims on applyFilters.  A filter or a field is absent when it is   *)
(* null or the empty string; a distance is a number of meters or absent.   *)

Absent(v) == v = JNull \/ v = EmptyString

\* applyFilters has returned
Filtered == fn = "applyFilters" /\ ret # << >>

\* whether applyFilters retains the record when it is handed it alone
Retained(record, f, date) == applyFilters(<<record>>, f, date).value # << >>

\* the k-th input record is in the output; the input is no longer than the
\* limit of the output, so that a record is left out by the filter only
InOutput(k) ==
    \E i \in 1..Len(ret[1].value) : ret[1].value[i].id = arg.records[k].id

Uncut == Len(arg.records) <= 50

(* C3: applyFilters returns at most 50 entries, and never more entries     *)
(* than its input holds.                                                   *)
C3_AtMostFiftyResults ==
    Filtered =>
        /\ ~ret[1].threw
        /\ Len(ret[1].value) <= 50
        /\ Len(ret[1].value) <= Len(arg.records)

\* 52 records that all pass the filter are cut to 50
C3_Witness ==
    /\ Filtered
    /\ Len(arg.records) = 52
    /\ Len(ret[1].value) = 50

(* C4: the output of applyFilters is in ascending order of distance, and   *)
(* no entry without a distance comes before an entry with one; the inputs  *)
(* hold every list in each of its orders.                                  *)
C4_SortedByDistance ==
    Filtered =>
        \A i \in 1..Len(ret[1].value) : \A j \in (i + 1)..Len(ret[1].value) :
            LET di == ret[1].value[i].meters
                dj == ret[1].value[j].meters
            IN /\ di = JNull => dj = JNull
               /\ (di # JNull /\ dj # JNull) => di.num <= dj.num

\* a list given with the record without a distance first and the nearest
\* record last comes out in the opposite order
C4_Witness ==
    /\ Filtered
    /\ arg.records = <<Lost, Mid, Near>>
    /\ Len(ret[1].value) = 3
    /\ ret[1].value[1].id = Near.id
    /\ ret[1].value[2].id = Mid.id
    /\ ret[1].value[3].id = Lost.id

(* C5: a category, accessible or pets filter that is set leaves only       *)
(* records of which the field equals the filter value, so that a record    *)
(* with an unknown flag passes neither a true nor a false filter; a filter *)
(* that is absent excludes nothing: whether a record is kept does not      *)
(* depend on the field that filter reads.                                  *)
C5_ExactMatchFilters ==
    Filtered =>
        /\ \A i \in 1..Len(ret[1].value) :
              /\ ~Absent(arg.f.category) =>
                    ret[1].value[i].category = arg.f.category
              /\ ~Absent(arg.f.accessible) =>
                    ret[1].value[i].accessible = arg.f.accessible
              /\ ~Absent(arg.f.pets) =>
                    ret[1].value[i].pets_allowed = arg.f.pets
        /\ Uncut =>
              \A k \in 1..Len(arg.records) :
                 /\ Absent(arg.f.category) =>
                       \A c \in {Shelter, FoodBank} :
                          InOutput(k) = Retained([arg.records[k] EXCEPT !.category = c],
                                                 arg.f, arg.date)
                 /\ Absent(arg.f.accessible) =>
                       \A a \in FlagValues :
                          InOutput(k) = Retained([arg.records[k] EXCEPT !.accessible = a],
                                                 arg.f, arg.date)
                 /\ Absent(arg.f.pets) =>
                       \A p \in FlagValues :
                          InOutput(k) = Retained([arg.records[k] EXCEPT !.pets_allowed = p],
                                                 arg.f, arg.date)

\* a shelter of unknown accessibility is left out under accessible = false
C5_Witness ==
    /\ Filtered
    /\ Len(arg.records) = 1
    /\ arg.records[1].category = Shelter
    /\ arg.records[1].accessible = JNull
    /\ arg.f.category = Shelter
    /\ arg.f.accessible = JBool(FALSE)
    /\ arg.f.pets = JNull
    /\ arg.f.gender = JNull
    /\ ret[1].value = << >>

(* C6: the gender test keeps a record exactly when the gender filter is    *)
(* absent, or the record's gender restriction is absent, or the            *)
(* restriction equals the filter: a record is in the output iff that holds *)
(* and the record is kept when the gender filter is taken away.            *)
GenderPasses(record, f) ==
    \/ Absent(f.gender)
    \/ Absent(record.gender_restriction)
    \/ record.gender_restriction = f.gender

C6_GenderPredicate ==
    (Filtered /\ Uncut) =>
        \A k \in 1..Len(arg.records) :
            InOutput(k) =
                (/\ GenderPasses(arg.records[k], arg.f)
                 /\ Retained(arg.records[k], [arg.f EXCEPT !.gender = JNull],
                             arg.date))

\* a record open to all is left out under the filter "women", which no
\* other filter would do
C6_Witness ==
    /\ Filtered
    /\ Len(arg.records) = 1
    /\ arg.records[1].gender_restriction = All
    /\ arg.f.gender = Women
    /\ Retained(arg.records[1], [arg.f EXCEPT !.gender = JNull], arg.date)
    /\ ret[1].value = << >>

(* C7: every record of the output with a finite distance is at most        *)
(* radiusKm * 1000 meters away, and a record without a distance (none from *)
(* the store, no coordinates to compute one) is kept or left out the same  *)
(* under every radius.                                                     *)
NoDistance(record) ==
    /\ record.meters = JNull
    /\ (record.latitude = JNull \/ record.longitude = JNull)

C7_RadiusRule ==
    Filtered =>
        /\ \A i \in 1..Len(ret[1].value) :
              ret[1].value[i].meters.type = "number" =>
                 ret[1].value[i].meters.num <= arg.f.radiusKm.num * 1000
        /\ Uncut =>
              \A k \in 1..Len(arg.records) :
                 NoDistance(arg.records[k]) =>
                    \A km \in Radii :
                       InOutput(k) =
                          Retained(arg.records[k],
                                   [arg.f EXCEPT !.radiusKm = JNum(km)], arg.date)

\* under the radius 0 the record 300 m away is left out and the record
\* without a distance is kept
C7_Witness ==
    /\ Filtered
    /\ arg.records = <<Near, Lost>>
    /\ arg.f.radiusKm = JNum(0)
    /\ Len(ret[1].value) = 1
    /\ ret[1].value[1].id = Lost.id
    /\ ret[1].value[1].meters = JNull

----------------------------------------------------------------------------
(* The claims on the GET handler *)

\* a number can be read at the start of the text: blanks, at most one sign,
\* then a digit
StartsWithNumber(cs) ==
    \E k \in 1..Len(cs) :
        /\ IsDigit(cs[k])
        /\ \A j \in 1..(k - 2) : cs[j] = " "
        /\ k > 1 => cs[k - 1] \in {" ", "+", "-"}

\* the parameter is missing or cannot be read as a number
Unreadable(param) == param = JNull \/ ~StartsWithNumber(param.chars)

\* a request is being served, or has been
Requested == query # << >>

(* C1: a request of which lat or lng is missing or cannot be read as a     *)
(* number is answered 400 with an error field, at once: no rpc call is     *)
(* issued for it and the fallback records are not read.                    *)
C1_MissingCoordinatesRejected ==
    (Requested /\ (Unreadable(query.lat) \/ Unreadable(query.lng))) =>
        /\ pc = "done"
        /\ response.status = 400
        /\ "error" \in DOMAIN response.body
        /\ rpcCalls = 0
        /\ fallbackReads = 0
        /\ candidates = << >>

\* a request with lat=x and lng=1 has been answered 400
C1_Witness ==
    /\ pc = "done"
    /\ query.lat = Param(<<"x">>)
    /\ query.lng = Param(<<"1">>)
    /\ response.status = 400

\* the store attempt failed: no client, a rejected call, an error payload,
\* data that is no array of rows
StoreFailed ==
    \/ rpcCalls = 0
    \/ reply.kind = "rejected"
    \/ reply.error # JNull
    \/ reply.data.type # "array"
    \/ \E i \in 1..Len(reply.data.items) : reply.data.items[i] = JNull

\* the distance in meters from the origin of the request to a record that
\* has coordinates
FreshDistance(record) ==
    JNum(HaversineMeters(filterOptions.lat.num, record.latitude.num,
                         IF record.longitude.num >= filterOptions.lng.num
                         THEN record.longitude.num - filterOptions.lng.num
                         ELSE filterOptions.lng.num - record.longitude.num))

\* the entry is a record of the fallback dataset with its distance from
\* the origin of the request
FromFallback(entry) ==
    \E k \in 1..Len(mockLocations) :
        entry = [mockLocations[k] EXCEPT !.meters = FreshDistance(mockLocations[k])]

(* C2: a request with readable lat and lng is answered 200 with a results  *)
(* payload whatever the store does; when the store attempt failed (no      *)
(* client, a rejected call, an error payload, a malformed answer) the      *)
(* results are records of the fallback dataset, each with its distance     *)
(* computed from the origin of the request.                                *)
C2_AlwaysResults ==
    (pc = "done" /\ ~Unreadable(query.lat) /\ ~Unreadable(query.lng)) =>
        /\ response.status = 200
        /\ DOMAIN response.body = {"results"}
        /\ StoreFailed => fallbackReads = 1
        /\ fallbackReads = 1 =>
              \A i \in 1..Len(response.body.results) :
                 FromFallback(response.body.results[i])

\* a rejected rpc call answered from the fallback records, the first of
\* them the record at the origin of the request, 0 m away
C2_Witness ==
    /\ pc = "done"
    /\ rpcCalls = 1
    /\ reply = Rejected
    /\ fallbackReads = 1
    /\ response.status = 200
    /\ filterOptions.lat = JNum(1)
    /\ filterOptions.radiusKm = JNum(200)
    /\ Len(response.body.results) > 0
    /\ response.body.results[1].meters = JNum(0)

\* the schedule lists at least one interval for the weekday
ListsWeekday(hours, day) ==
    /\ hours # JNull
    /\ dayKeys[day + 1] \in DOMAIN hours.fields
    /\ hours.fields[dayKeys[day + 1]].items # << >>

\* the records without their schedules
WithoutHours(records) ==
    [i \in 1..Len(records) |-> [records[i] EXCEPT !.hours = JNull]]

\* the ids of the records, in order
Ids(records) == [i \in 1..Len(records) |-> records[i].id]

(* C8: under open_now = true every record of the response is one that      *)
(* isOpenNow reports open at the time the filter ran, whether the records  *)
(* came from the store or from the fallback dataset, and its schedule      *)
(* lists the weekday of that time; without open_now = true the response    *)
(* holds the records it would hold if no record had a schedule.            *)
C8_OpenNowFilter ==
    (pc = "done" /\ response.status = 200) =>
        IF filterOptions.openNow = JBool(TRUE)
        THEN \A i \in 1..Len(response.body.results) :
                /\ isOpenNow(response.body.results[i].hours, evaluatedAt)
                      = Return(TRUE)
                /\ ListsWeekday(response.body.results[i].hours, evaluatedAt.day)
        ELSE Ids(response.body.results) =
                Ids(applyFilters(WithoutHours(candidates), filterOptions,
                                 evaluatedAt).value)

\* the store returned an open shelter and a food bank without a schedule:
\* under open_now = true the response holds the shelter alone
C8_Witness ==
    /\ pc = "done"
    /\ response.status = 200
    /\ filterOptions.openNow = JBool(TRUE)
    /\ fallbackReads = 0
    /\ Len(candidates) = 2
    /\ candidates[2].hours = JNull
    /\ Len(response.body.results) = 1
    /\ response.body.results[1].id = candidates[1].id

----------------------------------------------------------------------------
(* C11: the distance fill leaves a record that carries a distance, 0       *)
(* included, with exactly that distance, whatever its coordinates would    *)
(* give; a record without one gets the distance from the origin of the     *)
(* query to its coordinates (none when a coordinate is missing).  Nothing  *)
(* else of a record changes.                                               *)

\* the distance in meters from the origin of the criteria to the
\* coordinates of the record
DistanceFromOrigin(record, f) ==
    JNum(HaversineMeters(f.lat.num, record.latitude.num,
                         IF record.longitude.num >= f.lng.num
                         THEN record.longitude.num - f.lng.num
                         ELSE f.lng.num - record.longitude.num))

\* the distance the claim gives the record in the output
ClaimedDistance(record, f) ==
    IF record.meters # JNull THEN record.meters
    ELSE IF record.latitude = JNull \/ record.longitude = JNull THEN JNull
    ELSE DistanceFromOrigin(record, f)

C11_GivenDistanceKept ==
    Filtered =>
        \A i \in 1..Len(ret[1].value) :
            \E k \in 1..Len(arg.records) :
                ret[1].value[i] =
                    [arg.records[k] EXCEPT
                        !.meters = ClaimedDistance(arg.records[k], arg.f)]

\* the record given 0 m keeps 0 although it lies 157 km from the origin,
\* next to a record that gets its 111 km computed
C11_Witness ==
    /\ Filtered
    /\ arg.records = <<Unmeasured, AtZero>>
    /\ arg.f.lat = JNum(1)
    /\ arg.f.lng = JNum(1)
    /\ Len(ret[1].value) = 2
    /\ ret[1].value[1] = AtZero
    /\ ret[1].value[2].meters = JNum(111178)

----------------------------------------------------------------------------
(* C12: a request issues at most one rpc call.  The step after the call is *)
(* the last one of the request and issues no call; when the call was       *)
(* rejected or brought an error payload that step reads the fallback       *)
(* records and answers 200.  A request served without a client issues no   *)
(* call and goes to the fallback at once.                                  *)

\* the call threw or brought an error payload
FailedReply(r) == r.kind = "rejected" \/ r.error # JNull

C12_SingleStoreCall ==
    [][/\ rpcCalls' <= 1
       /\ pc = "awaiting" =>
             /\ pc' = "done"
             /\ rpcCalls' = rpcCalls
             /\ FailedReply(reply') =>
                   (fallbackReads' = 1 /\ response'.status = 200)
       /\ (pc = "idle" /\ pc' = "done" /\ response'.status = 200) =>
             (rpcCalls' = 0 /\ fallbackReads' = 1)]_vars

\* a call that brought an error payload, answered from the fallback records
\* after that one call
C12_Witness ==
    /\ pc = "done"
    /\ rpcCalls = 1
    /\ reply.kind = "settled"
    /\ reply.error # JNull
    /\ fallbackReads = 1
    /\ response.status = 200

----------------------------------------------------------------------------
(* C13: when the rpc call completes without an error and brings no data or *)
(* zero rows, the request reads the fallback records and hands them, not   *)
(* the empty answer, to the filter.                                        *)

\* the call brought no error and nothing to show: null data or no row
EmptyAnswer(r) ==
    /\ r.kind = "settled"
    /\ r.error = JNull
    /\ (r.data = JNull \/ r.data = JArr(<< >>))

C13_EmptyAnswerFallsBack ==
    (pc = "done" /\ rpcCalls = 1 /\ EmptyAnswer(reply)) =>
        /\ fallbackReads = 1
        /\ candidates = FallbackRecords

----------------------------------------------------------------------------
(* isOpenNow on schedules as a store row can carry them: hours is a jsonb  *)
(* column, so a day entry, an interval and an endpoint can be any JSON     *)
(* value                                                                   *)

\* a time string with no digit in it
NoDigits == JStr(<<"x", "x", ":", "x", "x">>)

\* the endpoints of the intervals: two times, a string without digits, a
\* number
OddEndpoints == {TimeString(9, 0), TimeString(17, 0), NoDigits, JNum(900)}

\* the intervals: every pair of these endpoints, and values that are no
\* pair
OddIntervals ==
    {Interval(start, end) : start \in OddEndpoints, end \in OddEndpoints}
    \cup {JArr(<<TimeString(9, 0)>>), JNum(5), JNull}

\* the day entries: lists of intervals, and values that are no list
OddDayEntries ==
    {JArr(list) : list \in SeqUpTo(OddIntervals, MaxIntervals)}
    \cup {JStr(<<"c", "l", "o", "s", "e", "d">>), JNum(5), JBool(TRUE),
          JObj([open |-> JBool(FALSE)])}

\* the schedules: Monday's entry is one of these; values that are no
\* schedule
OddSchedules ==
    {JObj([mon |-> entry]) : entry \in OddDayEntries}
    \cup {JStr(<<"x">>), JNum(1)}

\* Monday at four times of the day, and a Tuesday
OddDates == {Date(1, 1, 30), Date(1, 10, 0), Date(1, 18, 0), Date(1, 23, 30),
             Date(2, 10, 0)}

InitSchedules ==
    /\ NoRequest
    /\ fn = "isOpenNow"
    /\ arg \in [hours : OddSchedules, referenceDate : OddDates]
    /\ ret = << >>

CallIsOpenNowOnRow ==
    Returns("isOpenNow", isOpenNow(arg.hours, arg.referenceDate))

SpecSchedules == InitSchedules /\ [][CallIsOpenNowOnRow]_vars

\* the entry of the schedule for the weekday of the date, null when the
\* schedule has none
DayEntry(hours, date) ==
    IF hours.type = "object" /\ dayKeys[date.day + 1] \in DOMAIN hours.fields
    THEN hours.fields[dayKeys[date.day + 1]]
    ELSE JNull

\* an interval of the expected shape: a pair of strings
PairOfStrings(interval) ==
    /\ interval.type = "array"
    /\ Len(interval.items) = 2
    /\ interval.items[1].type = "string"
    /\ interval.items[2].type = "string"

\* the day entry has an unexpected shape: it is no list, or one of its
\* intervals is no pair of strings
MalformedEntry(entry) ==
    /\ entry # JNull
    /\ \/ entry.type # "array"
       \/ \E i \in 1..Len(entry.items) : ~PairOfStrings(entry.items[i])

(* C14: isOpenNow does not throw on malformed hours: when the entry of the *)
(* weekday is no list, or one of its intervals is no pair of strings, it   *)
(* returns false.                                                          *)
C14_MalformedHoursClosed ==
    (fn = "isOpenNow" /\ ret # << >>) =>
        /\ ~ret[1].threw
        /\ MalformedEntry(DayEntry(arg.hours, arg.referenceDate)) =>
              ret[1].value = FALSE

\* the string has no digit where the hour is read
NonNumeric(time) == time.type = "string" /\ ~StartsWithNumber(time.chars)

(* C15: an interval of which the start or the end is a string without any  *)
(* number (NaN minutes) never matches: a day entry made of such intervals  *)
(* alone gives false at every minute of the day.                           *)
C15_NaNIntervalNeverMatches ==
    (/\ fn = "isOpenNow"
     /\ ret # << >>
     /\ DayEntry(arg.hours, arg.referenceDate).type = "array"
     /\ \A i \in 1..Len(DayEntry(arg.hours, arg.referenceDate).items) :
           LET interval == DayEntry(arg.hours, arg.referenceDate).items[i]
           IN /\ PairOfStrings(interval)
              /\ (NonNumeric(interval.items[1]) \/ NonNumeric(interval.items[2])))
    => ret[1] = Return(FALSE)

----------------------------------------------------------------------------
(* normalize on the minutes toMinutes reads from a time string *)

\* the hours of the time strings: within the day, and before and past it
\* by up to two days
ClockHours == -49 .. 72

\* the string "HH:MM", "-HH:MM" for a negative hour
SignedTimeString(h, m) ==
    IF h < 0
    THEN JStr(<<"-">> \o TimeString(-h, m).chars)
    ELSE TimeString(h, m)

TimeStrings == {SignedTimeString(h, m) : h \in ClockHours, m \in {0, 30, 59}}

\* normalize(toMinutes(time)), parsed being the outcome of toMinutes
NormalizeParsed(parsed) ==
    IF parsed.threw THEN Throw ELSE Return(normalize(parsed.value))

InitMinutes ==
    /\ NoRequest
    /\ fn = "normalize"
    /\ arg \in TimeStrings
    /\ ret = << >>

CallNormalize == Returns("normalize", NormalizeParsed(toMinutes(arg)))

SpecMinutes == InitMinutes /\ [][CallNormalize]_vars

(* C16: the minutes of an endpoint are wrapped modulo 1440: whatever the   *)
(* time string, negative or past the day by any amount, the value the      *)
(* containment test gets lies in [0, 1440) and is congruent modulo 1440 to *)
(* the minutes parsed from the string.                                     *)
C16_WrapsModulo1440 ==
    (fn = "normalize" /\ ret # << >>) =>
        /\ ~ret[1].threw
        /\ ret[1].value.type = "number"
        /\ ret[1].value.num \in 0..1439
        /\ (ret[1].value.num - toMinutes(arg).value.num) % 1440 = 0

----------------------------------------------------------------------------
(* C17: a store row of which the geometry is a text that does not parse,   *)
(* or parses to something without a coordinates pair, gets both            *)
(* coordinates absent and raises nothing: when no row is missing and no    *)
(* schedule breaks the open-now test, the request does not fall back, each *)
(* row is handed to the filter as its record, in order, and the record of  *)
(* the malformed row is among them with no coordinates.                    *)

\* the row has no coordinate fields and a geometry text that gives none
MalformedGeometry(row) ==
    /\ row # JNull
    /\ "geom" \in DOMAIN row.fields
    /\ row.fields.geom \in {JStr(<<"x">>), JStr(<<"null">>)}

\* nothing but a geometry can make the rows throw: every row is an object,
\* and under open_now every schedule has the expected shape for the day
OtherwiseSound(rows) ==
    \A k \in 1..Len(rows) :
        /\ rows[k] # JNull
        /\ filterOptions.openNow = JBool(TRUE) =>
              ~MalformedEntry(DayEntry(Field(rows[k], "hours"), evaluatedAt))

\* the fields the filter reads, as the row gives them
SameFields(record, row) ==
    \A key \in {"id", "category", "meters", "hours", "accessible",
                "pets_allowed", "gender_restriction"} :
        record[key] = Field(row, key)

C17_MalformedGeometryTolerated ==
    (/\ pc = "done"
     /\ rpcCalls = 1
     /\ reply.kind = "settled"
     /\ reply.error = JNull
     /\ reply.data.type = "array"
     /\ \E k \in 1..Len(reply.data.items) : MalformedGeometry(reply.data.items[k])
     /\ OtherwiseSound(reply.data.items))
    => /\ fallbackReads = 0
       /\ response.status = 200
       /\ Len(candidates) = Len(reply.data.items)
       /\ \A k \in 1..Len(candidates) :
             /\ SameFields(candidates[k], reply.data.items[k])
             /\ MalformedGeometry(reply.data.items[k]) =>
                   (candidates[k].latitude = JNull /\ candidates[k].longitude = JNull)

\* a row with the geometry text "null" comes back next to a sound row: both
\* are in the response, the malformed one last, without coordinates or
\* distance
C17_Witness ==
    /\ pc = "done"
    /\ rpcCalls = 1
    /\ fallbackReads = 0
    /\ reply.data = JArr(<<RowPointless, RowShelter>>)
    /\ Len(response.body.results) = 2
    /\ response.body.results[1].id = Field(RowShelter, "id")
    /\ response.body.results[2].id = Field(RowPointless, "id")
    /\ response.body.results[2].latitude = JNull
    /\ response.body.results[2].meters = JNull

----------------------------------------------------------------------------
(* supabase/schema.sql: the WHERE clause of nearby_locations *)

\* the arguments GET passes to the rpc call for the four filters
RpcArguments(f) ==
    [cat |-> Coalesce(f.category, JNull),
     need_accessible |-> f.accessible,
     need_pets |-> f.pets,
     gender_focus |-> f.gender]

\* column = parameter in SQL: true only when neither side is null
SqlEquals(column, parameter) ==
    column # JNull /\ parameter # JNull /\ column = parameter

\* the conjuncts of the WHERE clause on category, accessible, pets_allowed
\* and gender_restriction: a row is selected when each of them is true
StoreSelects(row, p) ==
    /\ (p.cat = JNull \/ SqlEquals(row.category, p.cat))
    /\ (p.need_accessible = JNull \/ SqlEquals(row.accessible, p.need_accessible))
    /\ (p.need_pets = JNull \/ SqlEquals(row.pets_allowed, p.need_pets))
    /\ (\/ p.gender_focus = JNull
        \/ SqlEquals(row.gender_restriction, p.gender_focus)
        \/ SqlEquals(row.gender_restriction, JStr(<<"a", "l", "l">>)))

(* C18: the filter of the application applies the predicates of the store  *)
(* on category, accessible, pets and gender: a row satisfies the WHERE     *)
(* predicates of nearby_locations iff applyFilters keeps it, for every row *)
(* and every combination of the four parameters (values of the store's     *)
(* types; the row is within the radius and open_now is off).               *)
C18_SamePredicatesAsStore ==
    (/\ Filtered
     /\ arg \in ProfileArgs
     /\ arg.f.category # EmptyString
     /\ arg.f.gender # EmptyString)
    => (StoreSelects(arg.records[1], RpcArguments(arg.f))
           <=> ret[1].value # << >>)

----------------------------------------------------------------------------
(* C19: applyFilters and the clock *)

(* C19 as claimed: applyFilters is a function of the records and the       *)
(* criteria alone: an invocation at any other time returns what this one   *)
(* returned, also under openNow.                                           *)
C19_SameResultAtAnyTime ==
    Filtered =>
        \A date \in RequestDates :
            applyFilters(arg.records, arg.f, date) = ret[1]

(* C19 as amended: when openNow is not set, an invocation at any other     *)
(* time returns what this one returned; under openNow the result depends   *)
(* on the time of the invocation as well.                                  *)
C19_SameResultWithoutOpenNow ==
    (Filtered /\ arg.f.openNow # JBool(TRUE)) =>
        \A date \in RequestDates :
            applyFilters(arg.records, arg.f, date) = ret[1]

\* without openNow a record that is closed at 18:00 is returned, as it is
\* at 10:00
C19_Witness ==
    /\ Filtered
    /\ arg.f.openNow = JBool(FALSE)
    /\ arg.records = <<Near, Mid>>
    /\ isOpenNow(Near.hours, arg.date) = Return(TRUE)
    /\ isOpenNow(Near.hours, Date(1, 18, 0)) = Return(FALSE)
    /\ Len(ret[1].value) = 1
    /\ ret[1].value[1] = Near

----------------------------------------------------------------------------
(* Concurrent requests: every request is served by its own call of GET,    *)
(* a call runs without interruption up to its await and from it on, and    *)
(* the calls share the mockLocations array of the module.                  *)

\* the most requests under way at once
MaxRequests == 2
Requests == 1..MaxRequests

\* the requests, the answers of the store and the clock readings of the
\* concurrent handlers
ConcurrentQueries ==
    {q \in Queries : /\ q.lat \in {JNull, Param(<<"1">>)}
                     /\ q.lng = Param(<<"1">>)
                     /\ q.radius_km = JNull
                     /\ (q.category = JNull) = (q.open_now = JNull)
                     /\ q.lat = JNull => q.category = JNull
                     /\ q.accessible = JNull /\ q.pets = JNull /\ q.gender = JNull}
ConcurrentReplies ==
    {Rejected, Settled(JNull, JNull), Settled(JArr(<<RowShelter, RowGeometry>>), JNull)}
ConcurrentDates == {Date(1, 10, 0), Date(1, 18, 0)}

\* a variant that keeps the filter options in a variable of the module:
\* the handler that resumes reads what the latest request to build them wrote
OptionsOfLatestCall(r) ==
    filterOptions[CHOOSE s \in Requests :
                      /\ filterOptions[s] # <<>>
                      /\ \A t \in Requests : filterOptions[t] # <<>> => t <= s]

\* filterOptions is a const of the call of GET: after the await the handler
\* reads the object its own call built
OptionsOfCall(r) == filterOptions[r]

\* what ({ ...record, meters: null }) leaves of the record of the dataset it
\* reads: the spread builds a new object and writes no field of the record
LeftBySpread(record) == record

\* mockLocations.map(...): the copies the request works on, and the dataset
\* as the map leaves it
CopiesOf(shared) ==
    [records |-> [i \in 1..Len(shared) |-> [shared[i] EXCEPT !.meters = JNull]],
     shared |-> [i \in 1..Len(shared) |-> LeftBySpread(shared[i])]]

\* what the callback of records.map(...) in applyFilters leaves of the
\* record it is called on: it returns the record itself or the new object
\* of attachDistance ({ ...record, meters }), and writes no field
LeftByFill(record, lat, lng) == record

\* the records applyFilters was given, as it leaves them: map and filter
\* build new arrays, and sort orders the array filter built
LeftByApplyFilters(records, f) ==
    [i \in 1..Len(records) |-> LeftByFill(records[i], f.lat, f.lng)]

InitConcurrent ==
    /\ pc = [r \in Requests |-> "idle"]
    /\ query = [r \in Requests |-> <<>>]
    /\ filterOptions = [r \in Requests |-> <<>>]
    /\ reply = [r \in Requests |-> <<>>]
    /\ candidates = [r \in Requests |-> <<>>]
    /\ evaluatedAt = [r \in Requests |-> <<>>]
    /\ response = [r \in Requests |-> <<>>]
    /\ rpcCalls = [r \in Requests |-> 0]
    /\ fallbackReads = [r \in Requests |-> 0]
    /\ dataset = mockLocations
    /\ fn = "GET"
    /\ arg = <<>>
    /\ ret = << >>

\* request r: GET with lat or lng missing
RequestRejected(r, q) ==
    /\ pc[r] = "idle"
    /\ MissingCoordinates(q)
    /\ pc' = [pc EXCEPT ![r] = "done"]
    /\ query' = [query EXCEPT ![r] = q]
    /\ response' = [response EXCEPT ![r] = BadRequest]
    /\ UNCHANGED <<filterOptions, reply, candidates, evaluatedAt, rpcCalls,
                   fallbackReads, dataset, fn, arg, ret>>

\* request r: GET up to its await
RequestCallsStore(r, q) ==
    /\ pc[r] = "idle"
    /\ ~MissingCoordinates(q)
    /\ pc' = [pc EXCEPT ![r] = "awaiting"]
    /\ query' = [query EXCEPT ![r] = q]
    /\ filterOptions' = [filterOptions EXCEPT ![r] = FilterOptionsOf(q)]
    /\ rpcCalls' = [rpcCalls EXCEPT ![r] = @ + 1]
    /\ UNCHANGED <<reply, candidates, evaluatedAt, response, fallbackReads,
                   dataset, fn, arg, ret>>

\* request r: GET from its await on, the try block answering
RequestReturnsStoreRows(r, answer, date) ==
    /\ pc[r] = "awaiting"
    /\ LET f == OptionsOfCall(r)
           attempt == TryStore(answer, f, date)
       IN /\ attempt.returned
          /\ candidates' = [candidates EXCEPT
                                ![r] = LeftByApplyFilters(attempt.records, f)]
          /\ response' = [response EXCEPT ![r] = attempt.response]
    /\ pc' = [pc EXCEPT ![r] = "done"]
    /\ reply' = [reply EXCEPT ![r] = answer]
    /\ evaluatedAt' = [evaluatedAt EXCEPT ![r] = date]
    /\ UNCHANGED <<query, filterOptions, rpcCalls, fallbackReads, dataset,
                   fn, arg, ret>>

\* request r: GET from its await on, the try block having returned nothing:
\* the fallback reads the dataset as it is then
RequestFallsBack(r, answer, date) ==
    /\ pc[r] = "awaiting"
    /\ LET f == OptionsOfCall(r)
           copies == CopiesOf(dataset)
       IN /\ ~TryStore(answer, f, date).returned
          /\ dataset' = copies.shared
          /\ candidates' = [candidates EXCEPT
                                ![r] = LeftByApplyFilters(copies.records, f)]
          /\ response' = [response EXCEPT ![r] =
                 Returned(copies.records,
                          buildResponse(copies.records, f, date)).response]
    /\ pc' = [pc EXCEPT ![r] = "done"]
    /\ reply' = [reply EXCEPT ![r] = answer]
    /\ evaluatedAt' = [evaluatedAt EXCEPT ![r] = date]
    /\ fallbackReads' = [fallbackReads EXCEPT ![r] = @ + 1]
    /\ UNCHANGED <<query, filterOptions, rpcCalls, fn, arg, ret>>

NextConcurrent ==
    \/ \E r \in Requests, q \in ConcurrentQueries : RequestRejected(r, q)
    \/ \E r \in Requests, q \in ConcurrentQueries : RequestCallsStore(r, q)
    \/ \E r \in Requests, answer \in ConcurrentReplies, date \in ConcurrentDates :
           RequestReturnsStoreRows(r, answer, date)
    \/ \E r \in Requests, answer \in ConcurrentReplies, date \in ConcurrentDates :
           RequestFallsBack(r, answer, date)

SpecConcurrent == InitConcurrent /\ [][NextConcurrent]_vars

\* the response of a call of GET that runs alone, with the unmodified
\* dataset, for query q, the store answering with answer and the clock
\* reading date
ResponseAlone(q, answer, date) ==
    IF MissingCoordinates(q)
    THEN BadRequest
    ELSE LET attempt == TryStore(answer, FilterOptionsOf(q), date)
         IN IF attempt.returned
            THEN attempt.response
            ELSE Fallback(FilterOptionsOf(q), date).response

\* the records the handler of request r handed to applyFilters, as they
\* were when it handed them over
RecordsGiven(r) ==
    LET attempt == TryStore(reply[r], FilterOptionsOf(query[r]), evaluatedAt[r])
    IN IF attempt.returned THEN attempt.records ELSE FallbackRecords

\* request r ran the filter
Served(r) == pc[r] = "done" /\ ~MissingCoordinates(query[r])

\* C20: under every interleaving of the handlers around their awaits, the
\* bundled dataset stays as it was, the records a handler handed to the
\* filter are left as they were, no handler touches the state of another
\* request, and the response of every finished request is the one it would
\* get running alone with the same answer of the store and the same clock.
C20_NoInterference ==
    /\ dataset = mockLocations
    /\ \A r \in Requests :
          /\ pc[r] = "idle" =>
                 /\ query[r] = <<>> /\ filterOptions[r] = <<>>
                 /\ response[r] = <<>> /\ candidates[r] = <<>>
          /\ pc[r] = "awaiting" =>
                 /\ filterOptions[r] = FilterOptionsOf(query[r])
                 /\ response[r] = <<>> /\ candidates[r] = <<>>
          /\ Served(r) => candidates[r] = RecordsGiven(r)
          /\ pc[r] = "done" =>
                 response[r] = ResponseAlone(query[r], reply[r], evaluatedAt[r])

\* request 1 fell back to the dataset and lists its first record with the
\* distance filled in while the record it handed over has none, and request
\* 2, with other filters, lists a row the store answered at another time
C20_Witness ==
    /\ Served(1) /\ Served(2)
    /\ query[1].category = JNull /\ query[2].category # JNull
    /\ fallbackReads[1] = 1 /\ fallbackReads[2] = 0
    /\ evaluatedAt[1] # evaluatedAt[2]
    /\ response[1].status = 200 /\ response[2].status = 200
    /\ Len(response[1].body.results) = 1
    /\ response[1].body.results[1].id = mockLocations[1].id
    /\ response[1].body.results[1].meters = JNum(0)
    /\ candidates[1][1].meters = JNull
    /\ Len(response[2].body.results) = 1
    /\ response[2].body.results[1].id = JNum(1)

----------------------------------------------------------------------------
(* C21: an interval listed under weekday D with end < start continues into *)
(* the next calendar day: at a time of day D+1 whose minute of the day is  *)
(* in [0, end), isOpenNow reports open on account of D's interval,         *)
(* whatever the entry of day D+1 is, absent and empty included.            *)

\* the schedule S lists under weekday index d an interval with end < start
\* whose end lies after the minute m
CarriesPast(S, d, m) ==
    /\ S # JNull
    /\ dayKeys[d + 1] \in DOMAIN S.fields
    /\ \E i \in 1..Len(S.fields[dayKeys[d + 1]].items) :
          LET interval == S.fields[dayKeys[d + 1]].items[i].items
          IN /\ MinuteOfDay(interval[2]) < MinuteOfDay(interval[1])
             /\ m < MinuteOfDay(interval[2])

C21_OvernightContinuesNextDay ==
    (/\ fn = "isOpenNow"
     /\ ret # << >>
     /\ CarriesPast(arg.hours, (arg.referenceDate.day + 6) % 7,
                    arg.referenceDate.hours * 60 + arg.referenceDate.minutes))
    => ret[1] = Return(TRUE)

----------------------------------------------------------------------------
(* C22: the list is cut after it is filtered and sorted, so the entries    *)
(* returned are the nearest ones: no record that passes the filter and is  *)
(* left out has a distance strictly smaller than the distance of a         *)
(* returned entry, and no entry without a distance is returned while a     *)
(* passing record with a distance is left out.                             *)
C22_NearestReturned ==
    Filtered =>
        \A k \in 1..Len(arg.records) :
            (~InOutput(k) /\ Retained(arg.records[k], arg.f, arg.date)) =>
                LET d == ClaimedDistance(arg.records[k], arg.f)
                IN \A i \in 1..Len(ret[1].value) :
                       LET e == ret[1].value[i].meters
                       IN /\ e = JNull => d = JNull
                          /\ (e # JNull /\ d # JNull) => ~(d.num < e.num)

\* of 52 passing records with distances the two left out are 1000 m away;
\* the list ends with an entry at that distance and begins with one at 0 m
C22_Witness ==
    /\ Filtered
    /\ Len(arg.records) = 52
    /\ arg.records[1] = MeasuredRecord(1)
    /\ Len(ret[1].value) = 50
    /\ ret[1].value[1].meters = JNum(0)
    /\ ret[1].value[50].meters = JNum(1000)
    /\ \E k \in 1..52 : ~InOutput(k) /\ arg.records[k].meters = JNum(1000)
    /\ \A k \in 1..52 : ~InOutput(k) => arg.records[k].meters = JNum(1000)

----------------------------------------------------------------------------
(* extractCoordinates on geometries of which the coordinates array holds   *)
(* at least two elements that are not both numbers                         *)

\* coordinates arrays with an absent or a non-numeric element
OddPairs ==
    {<<JNull, JNum(1)>>, <<JNum(2), JNull>>, <<JNull, JNull>>,
     <<JStr(<<"Point">>), JNum(1)>>, <<JNum(2), JStr(<<"Point">>)>>,
     <<JArr(<<JNum(2), JNum(1)>>), JArr(<<>>)>>}

\* geometry objects with such an array, and geometry texts that parse to
\* such an object
OddGeometries ==
    {JObj([type |-> JStr(<<"Point">>), coordinates |-> JArr(pair)]) :
        pair \in OddPairs}
    \cup {JStr(<<"{", "\"coordinates\"", ":", "[", "null", ",", "1", "]", "}">>),
          JStr(<<"{", "\"coordinates\"", ":", "[", "2", ",", "null", "]", "}">>),
          JStr(<<"{", "\"coordinates\"", ":", "[", "\"Point\"", ",", "1", "]", "}">>),
          JStr(<<"{", "\"coordinates\"", ":", "[", "[", "2", ",", "1", "]", ",", "[", "]", "]", "}">>)}

\* the rows: such a geometry next to every combination of the numeric
\* coordinate fields
OddGeometryRows ==
    {JObj(fields) :
        fields \in [latitude : {JNull, JNum(2)},
                    longitude : {JNull, JNum(0)},
                    lat : {JNull, JNum(1)},
                    lng : {JNull, JNum(1)},
                    geom : OddGeometries]}

InitGeometry ==
    /\ NoRequest
    /\ fn = "extractCoordinates"
    /\ arg \in OddGeometryRows
    /\ ret = << >>

SpecGeometry == InitGeometry /\ [][CallExtractCoordinates]_vars

(* C23: for every row shape extractCoordinates returns two numbers or two  *)
(* absent values: never one coordinate without the other, never a value    *)
(* that is not a number, also when the coordinates array of a geometry     *)
(* object or text holds absent or non-numeric elements.                    *)
C23_TwoNumbersOrNone ==
    (fn = "extractCoordinates" /\ ret # << >>) =>
        /\ ~ret[1].threw
        /\ \/ Numeric(ret[1].value[1]) /\ Numeric(ret[1].value[2])
           \/ ret[1].value[1] = JNull /\ ret[1].value[2] = JNull

============================================================================
